---- MODULE Spec2Model ----
(***************************************************************************)
(* A model of main.py: the window of the YouTube stream downloader, its    *)
(* two one-shot worker threads (FetchThread, DownloadThread) and the Qt    *)
(* event queue that carries their signals to the window's slots.           *)
(*                                                                         *)
(* Conventions.                                                            *)
(*  - A Python str that the code inspects character by character (row      *)
(*    texts, titles, filenames) is a sequence of one-character strings.    *)
(*  - A label text is a sequence of pieces; a piece is either a literal of *)
(*    the source (lit) or a run of characters computed at run time (chars).*)
(*    f"Error: {e}" is Lit("Error: ") \o e.                                *)
(*  - None and the empty string are both the empty sequence: every place   *)
(*    the code reads such a value it only tests its truth.                 *)
(*  - The pytubefix library is opaque: each call of it is a choice among   *)
(*    the results of LibResults and the exceptions of LibErrors.           *)
(*  - Signals of a worker thread reach the window through queued           *)
(*    connections: emit appends to the event queue of the GUI thread,      *)
(*    which runs the slots in posting order. The modal filename dialog     *)
(*    (QInputDialog.getText) spins a nested event loop: while it is open   *)
(*    the user cannot reach the window's widgets but queued slots run.     *)
(*  - QTreeWidget.clear() clears the selection first; when a row was       *)
(*    selected that emits itemSelectionChanged, which the window has       *)
(*    connected to update_download_button_state.                           *)
(*  - Only column 0 of a tree row is modelled: no code reads the others.   *)
(*    The display order chosen by the sortable header is not modelled: the *)
(*    code reaches rows through the selection only.                        *)
(*  - QMessageBox calls are the last state-free statement of their slots   *)
(*    and are left out.                                                    *)
(*  - The window keeps one reference per kind of thread (self.fetch_thread,*)
(*    self.download_thread) and overwrites it at every start. A thread     *)
(*    that is no longer referenced keeps running and its signals are       *)
(*    delivered: its run() frame holds it and the posted slot calls belong *)
(*    to the window. Should the Qt binding end the process instead, the    *)
(*    behaviour stops there, which is a behaviour of Spec as well (it may  *)
(*    stutter for ever); Fairness assumes the process stays alive.         *)
(*  - download_selected_stream's generic except clause (lines 410-411) is  *)
(*    not reached: with the attribute values of Objects no statement of    *)
(*    its try block raises anything but the ValueErrors modelled here.     *)
(***************************************************************************)
EXTENDS Integers, Sequences, FiniteSets, TLC

(* ----------------------------- bounds ---------------------------------- *)
\* Worker threads (FetchThreads and DownloadThreads together) that one run
\* of the model starts.
MaxThreads == 3

\* Number of characters the longest video title keeps once its forbidden
\* characters are removed (beyond max_length, so that the truncation
\* happens).
MaxTitle == 250

(* ----------------------------- texts ----------------------------------- *)
Lit(s) == <<[lit |-> s, chars |-> <<>>]>>
Chr(cs) == IF cs = <<>> THEN <<>> ELSE <<[lit |-> "", chars |-> cs]>>

Digit == <<"0", "1", "2", "3", "4", "5", "6", "7", "8", "9">>

\* str(n) of a non-negative int
RECURSIVE IntToStr(_)
IntToStr(n) ==
    IF n < 10 THEN <<Digit[n + 1]>>
    ELSE IntToStr(n \div 10) \o <<Digit[(n % 10) + 1]>>

DigitValue(c) == CHOOSE k \in 0..9 : Digit[k + 1] = c

\* whether int(s) returns (decimal digits only: the only texts the code
\* hands to int() are tails of row texts)
IsIntLiteral(s) ==
    /\ s # <<>>
    /\ \A i \in DOMAIN s : \E k \in 1..10 : Digit[k] = s[i]

RECURSIVE StrToInt(_)
StrToInt(s) ==
    IF s = <<>> THEN 0
    ELSE 10 * StrToInt(SubSeq(s, 1, Len(s) - 1)) + DigitValue(s[Len(s)])

\* index of the first occurrence of sep in s at or after i, 0 when none
RECURSIVE Find(_, _, _)
Find(s, sep, i) ==
    IF i + Len(sep) - 1 > Len(s) THEN 0
    ELSE IF SubSeq(s, i, i + Len(sep) - 1) = sep THEN i
    ELSE Find(s, sep, i + 1)

\* s.split(sep)
RECURSIVE Split(_, _)
Split(s, sep) ==
    LET k == Find(s, sep, 1)
    IN  IF k = 0 THEN <<s>>
        ELSE <<SubSeq(s, 1, k - 1)>> \o Split(SubSeq(s, k + Len(sep), Len(s)), sep)

\* s.strip() for the whitespace the URL field can hold
RECURSIVE Strip(_)
Strip(s) ==
    IF s = <<>> THEN s
    ELSE IF Head(s) = " " THEN Strip(Tail(s))
    ELSE IF s[Len(s)] = " " THEN Strip(SubSeq(s, 1, Len(s) - 1))
    ELSE s

Upper == <<"A", "B", "C", "D", "E", "F", "G", "H", "I", "J", "K", "L", "M",
           "N", "O", "P", "Q", "R", "S", "T", "U", "V", "W", "X", "Y", "Z">>
Lower == <<"a", "b", "c", "d", "e", "f", "g", "h", "i", "j", "k", "l", "m",
           "n", "o", "p", "q", "r", "s", "t", "u", "v", "w", "x", "y", "z">>

LowerChar(c) ==
    IF \E k \in 1..26 : Upper[k] = c
    THEN Lower[CHOOSE k \in 1..26 : Upper[k] = c]
    ELSE c

\* s.lower()
ToLower(s) == [i \in DOMAIN s |-> LowerChar(s[i])]

\* s.endswith(suffix)
EndsWith(s, suffix) ==
    /\ Len(suffix) <= Len(s)
    /\ SubSeq(s, Len(s) - Len(suffix) + 1, Len(s)) = suffix

\* "_".join(parts)
RECURSIVE Join(_)
Join(parts) ==
    IF parts = <<>> THEN <<>>
    ELSE IF Len(parts) = 1 THEN parts[1]
    ELSE parts[1] \o <<"_">> \o Join(Tail(parts))

(* ------------------------ the external library ------------------------- *)
NA == <<"N", "/", "A">>
Mp4 == <<"m", "p", "4">>
Webm == <<"w", "e", "b", "m">>

\* What YouTube(url).streams and .captions can deliver: a video with a
\* progressive and an audio-only stream, and a video without streams.
LibResults ==
    { [streams |->
         << [itag |-> 18, type |-> "video", subtype |-> Mp4,
             title |-> <<"A", ":", "b">>,
             abr |-> <<"9", "6", "k", "b", "p", "s">>,
             resolution |-> <<"3", "6", "0", "p">>,
             includes_audio_track |-> TRUE, includes_video_track |-> TRUE],
            [itag |-> 140, type |-> "audio", subtype |-> Mp4,
             title |-> <<"A", ":", "b">>,
             abr |-> <<"1", "2", "8">>,
             resolution |-> <<>>,
             includes_audio_track |-> TRUE, includes_video_track |-> FALSE] >>,
       captions |-> << Lit("English") \o Lit(" (") \o Lit("en") \o Lit(")") >>],
      [streams |-> <<>>, captions |-> <<>>] }

\* str(e) of the exceptions the library raises
LibErrors == { Lit("video unavailable") }

\* yt.client before and after the streams were enumerated
OriginalClient == "ANDROID_VR"
LibClients == { "ANDROID_VR", "WEB" }

\* what stream.download() returns when it does not raise: a path, or a
\* falsy value
DownloadReturns == { "path", "falsy" }

\* the texts the URL field holds when Fetch Info is clicked
UrlTexts == { <<>>, <<" ">>, <<" ", "u">> }

\* the stream objects of one run of FetchThread are objects of their own:
\* obj is the run that built them
Objects(streams, id) ==
    [i \in DOMAIN streams |->
        [obj |-> id, itag |-> streams[i].itag, type |-> streams[i].type,
         subtype |-> streams[i].subtype, title |-> streams[i].title,
         abr |-> streams[i].abr, resolution |-> streams[i].resolution,
         includes_audio_track |-> streams[i].includes_audio_track,
         includes_video_track |-> streams[i].includes_video_track]]

(* ------------------------------ state ---------------------------------- *)
VARIABLES
    streams_objects,    \* MainWindow.streams_objects
    streams_tree,       \* top-level items of the tree, each with children
    selected,           \* path of the selected item, <<>> when none
    captions_listbox,   \* items of the caption list
    title_label, status_label, error_label,
    download_button,    \* download_button.isEnabled()
    dialog,             \* <<>> or <<the frame of the open filename dialog>>
    dialog_ok,          \* the ok flag the last closed filename dialog returned
    fetch_threads,      \* FetchThreads started, terminal signal not yet handled
    download_threads,   \* DownloadThreads started, terminal signal not yet handled
    queue,              \* posted slot calls of the GUI thread, oldest first
    nFetch, nDownload,  \* threads started so far
    latest,             \* how the FetchThread started last has reported
    applied             \* the fetch result update_info applied last

vars == <<streams_objects, streams_tree, selected, captions_listbox,
          title_label, status_label, error_label, download_button,
          dialog, dialog_ok, fetch_threads, download_threads, queue,
          nFetch, nDownload, latest, applied>>

Init ==
    /\ streams_objects = <<>>
    /\ streams_tree = <<>>
    /\ selected = <<>>
    /\ captions_listbox = <<>>
    /\ title_label = <<>>
    /\ status_label = Lit("Enter a YouTube URL and click Fetch Info to see available streams and captions.")
    /\ error_label = <<>>
    /\ download_button = FALSE
    /\ dialog = <<>>
    /\ dialog_ok = FALSE
    /\ fetch_threads = {}
    /\ download_threads = {}
    /\ queue = <<>>
    /\ nFetch = 0
    /\ nDownload = 0
    /\ latest = "none"
    /\ applied = [id |-> 0, streams |-> <<>>, captions |-> <<>>]

\* a posted slot call
Event(sig, kind, tid, streams, captions, text, orig, new) ==
    [sig |-> sig, kind |-> kind, tid |-> tid, streams |-> streams,
     captions |-> captions, text |-> text, orig |-> orig, new |-> new]

(* --------------------------- the tree widget --------------------------- *)
ItemText(tree, p) ==
    IF Len(p) = 1 THEN tree[p[1]].text ELSE tree[p[1]].children[p[2]]

TreePaths(tree) ==
    {<<i>> : i \in DOMAIN tree}
    \cup UNION {{<<i, j>> : j \in DOMAIN tree[i].children} : i \in DOMAIN tree}

\* update_download_button_state, the slot of itemSelectionChanged, for the
\* selection sel
update_download_button_state(sel) == sel # <<>>

\* the enabled state of the button after QTreeWidget.clear()
ButtonAfterClear ==
    IF selected # <<>> THEN update_download_button_state(<<>>)
    ELSE download_button

VideoStreams == <<"V", "i", "d", "e", "o", " ", "S", "t", "r", "e", "a", "m", "s">>
AudioStreams == <<"A", "u", "d", "i", "o", " ", "S", "t", "r", "e", "a", "m", "s">>
ItagPrefix == <<"I", "t", "a", "g", ":", " ">>

\* text(0) of the row update_info builds for a stream: f"Itag: {stream.itag}"
RowText(stream) == ItagPrefix \o IntToStr(stream.itag)

\* the rows update_info puts under a parent
RECURSIVE Rows(_, _)
Rows(streams, video) ==
    IF streams = <<>> THEN <<>>
    ELSE (IF (Head(streams).type = "video") = video
          THEN <<RowText(Head(streams))>> ELSE <<>>)
         \o Rows(Tail(streams), video)

\* the tree update_info builds: two parents, each stream under one of them
BuildTree(streams) ==
    << [text |-> VideoStreams, children |-> Rows(streams, TRUE)],
       [text |-> AudioStreams, children |-> Rows(streams, FALSE)] >>

(* ------------------------------ fetching ------------------------------- *)
NewFetchThread(id) ==
    [id |-> id, pc |-> "run", new |-> OriginalClient, streams |-> <<>>,
     captions |-> <<>>, emitted |-> <<>>]

\* fetch_video_info without captions_listbox.clear()
fetch_video_info_keeps_captions(text) ==
    /\ dialog = <<>>
    /\ IF Strip(text) = <<>>
       THEN /\ error_label' = Lit("Please enter a YouTube video URL.")
            /\ UNCHANGED <<streams_objects, streams_tree, selected,
                           captions_listbox, title_label, status_label,
                           download_button, fetch_threads, nFetch, latest>>
       ELSE /\ nFetch + nDownload < MaxThreads
            /\ status_label' = Lit("Fetching data...")
            /\ error_label' = <<>>
            /\ title_label' = <<>>
            /\ streams_tree' = <<>>
            /\ selected' = <<>>
            /\ download_button' = FALSE
            /\ nFetch' = nFetch + 1
            /\ fetch_threads' = fetch_threads \cup {NewFetchThread(nFetch + 1)}
            /\ latest' = "running"
            /\ UNCHANGED <<streams_objects, captions_listbox>>
    /\ UNCHANGED <<dialog, dialog_ok, download_threads, queue, nDownload,
                   applied>>

\* Fetch Info clicked with `text` in the URL field
fetch_video_info(text) ==
    /\ dialog = <<>>
    /\ IF Strip(text) = <<>>
       THEN /\ error_label' = Lit("Please enter a YouTube video URL.")
            /\ UNCHANGED <<streams_objects, streams_tree, selected,
                           captions_listbox, title_label, status_label,
                           download_button, fetch_threads, nFetch, latest>>
       ELSE /\ nFetch + nDownload < MaxThreads
            /\ status_label' = Lit("Fetching data...")
            /\ error_label' = <<>>
            /\ title_label' = <<>>
            /\ streams_tree' = <<>>
            /\ selected' = <<>>
            /\ captions_listbox' = <<>>
            /\ download_button' = FALSE
            /\ nFetch' = nFetch + 1
            /\ fetch_threads' = fetch_threads \cup {NewFetchThread(nFetch + 1)}
            /\ latest' = "running"
            /\ UNCHANGED streams_objects
    /\ UNCHANGED <<dialog, dialog_ok, download_threads, queue, nDownload,
                   applied>>

\* how the thread started last has reported, once thread t emits the
\* terminal signal sig
LatestAfter(t, sig) == IF t.id = nFetch THEN sig ELSE latest

\* FetchThread.run emitting client_switched without comparing yt.client
\* with original_client
FetchThread_run_always_switches(t) ==
    /\ t \in fetch_threads
    /\ t.pc = "run"
    /\ \/ \E r \in LibResults, c \in LibClients :
            LET u == [t EXCEPT !.new = c,
                               !.streams = Objects(r.streams, t.id),
                               !.captions = r.captions]
            IN  /\ fetch_threads' = (fetch_threads \ {t}) \cup
                       {[u EXCEPT !.pc = "finish",
                                  !.emitted = <<"client_switched">>]}
                /\ queue' = Append(queue,
                       Event("client_switched", "fetch", t.id, <<>>,
                             <<>>, <<>>, OriginalClient, c))
                /\ UNCHANGED latest
       \/ \E e \in LibErrors :
            /\ fetch_threads' = (fetch_threads \ {t}) \cup
                   {[t EXCEPT !.pc = "done", !.emitted = <<"error">>]}
            /\ queue' = Append(queue,
                   Event("error", "fetch", t.id, <<>>, <<>>, e, "", ""))
            /\ latest' = LatestAfter(t, "failed")
    /\ UNCHANGED <<streams_objects, streams_tree, selected, captions_listbox,
                   title_label, status_label, error_label, download_button,
                   dialog, dialog_ok, download_threads, nFetch, nDownload,
                   applied>>

\* FetchThread.run up to and including its first emit: the library calls
\* either raise, and the except clause emits error, or deliver the streams
\* and captions, and the thread emits client_switched when yt.client has
\* changed and finished otherwise
FetchThread_run(t) ==
    /\ t \in fetch_threads
    /\ t.pc = "run"
    /\ \/ \E r \in LibResults, c \in LibClients :
            LET u == [t EXCEPT !.new = c,
                               !.streams = Objects(r.streams, t.id),
                               !.captions = r.captions]
            IN  IF c # OriginalClient
                THEN /\ fetch_threads' = (fetch_threads \ {t}) \cup
                            {[u EXCEPT !.pc = "finish",
                                       !.emitted = <<"client_switched">>]}
                     /\ queue' = Append(queue,
                            Event("client_switched", "fetch", t.id, <<>>,
                                  <<>>, <<>>, OriginalClient, c))
                     /\ UNCHANGED latest
                ELSE /\ fetch_threads' = (fetch_threads \ {t}) \cup
                            {[u EXCEPT !.pc = "done",
                                       !.emitted = <<"finished">>]}
                     /\ queue' = Append(queue,
                            Event("finished", "fetch", t.id, u.streams,
                                  u.captions,
                                  Lit("Data fetched successfully."), "", ""))
                     /\ latest' = LatestAfter(t, "ok")
       \/ \E e \in LibErrors :
            /\ fetch_threads' = (fetch_threads \ {t}) \cup
                   {[t EXCEPT !.pc = "done", !.emitted = <<"error">>]}
            /\ queue' = Append(queue,
                   Event("error", "fetch", t.id, <<>>, <<>>, e, "", ""))
            /\ latest' = LatestAfter(t, "failed")
    /\ UNCHANGED <<streams_objects, streams_tree, selected, captions_listbox,
                   title_label, status_label, error_label, download_button,
                   dialog, dialog_ok, download_threads, nFetch, nDownload,
                   applied>>

\* FetchThread.run after client_switched.emit: finished.emit, its last
\* statement
FetchThread_emit_finished(t) ==
    /\ t \in fetch_threads
    /\ t.pc = "finish"
    /\ fetch_threads' = (fetch_threads \ {t}) \cup
           {[t EXCEPT !.pc = "done",
                      !.emitted = Append(t.emitted, "finished")]}
    /\ queue' = Append(queue,
           Event("finished", "fetch", t.id, t.streams, t.captions,
                 Lit("Data fetched successfully."), "", ""))
    /\ latest' = LatestAfter(t, "ok")
    /\ UNCHANGED <<streams_objects, streams_tree, selected, captions_listbox,
                   title_label, status_label, error_label, download_button,
                   dialog, dialog_ok, download_threads, nFetch, nDownload,
                   applied>>

\* the threads left once the terminal signal of thread tid is handled
Handled(threads, tid) == {t \in threads : t.id # tid}

\* slot of FetchThread.client_switched
show_client_switch ==
    /\ queue # <<>>
    /\ Head(queue).sig = "client_switched"
    /\ status_label' = Lit("Client switched from ") \o Lit(Head(queue).orig)
                       \o Lit(" to ") \o Lit(Head(queue).new)
                       \o Lit(" to fetch video data.")
    /\ queue' = Tail(queue)
    /\ UNCHANGED <<streams_objects, streams_tree, selected, captions_listbox,
                   title_label, error_label, download_button, dialog,
                   dialog_ok, fetch_threads, download_threads, nFetch,
                   nDownload, latest, applied>>

\* slot of FetchThread.finished
update_info ==
    /\ queue # <<>>
    /\ Head(queue).sig = "finished"
    /\ LET ev == Head(queue)
       IN  /\ streams_objects' = ev.streams
           /\ title_label' = IF ev.streams # <<>>
                             THEN Chr(ev.streams[1].title) ELSE title_label
           /\ streams_tree' = BuildTree(ev.streams)
           /\ selected' = <<>>
           /\ download_button' = ButtonAfterClear
           /\ captions_listbox' = captions_listbox \o ev.captions
           /\ status_label' = ev.text
           /\ error_label' = <<>>
           /\ fetch_threads' = Handled(fetch_threads, ev.tid)
           /\ applied' = [id |-> ev.tid, streams |-> ev.streams,
                          captions |-> ev.captions]
    /\ queue' = Tail(queue)
    /\ UNCHANGED <<dialog, dialog_ok, download_threads, nFetch, nDownload,
                   latest>>

\* show_error resetting the view as fetch_video_info does
show_error_clears_view ==
    /\ queue # <<>>
    /\ Head(queue).sig = "error"
    /\ Head(queue).kind = "fetch"
    /\ error_label' = Lit("Error: ") \o Head(queue).text
    /\ status_label' = Lit("Failed to fetch data.")
    /\ streams_tree' = <<>>
    /\ selected' = <<>>
    /\ captions_listbox' = <<>>
    /\ download_button' = FALSE
    /\ fetch_threads' = Handled(fetch_threads, Head(queue).tid)
    /\ queue' = Tail(queue)
    /\ UNCHANGED <<streams_objects, title_label, dialog, dialog_ok,
                   download_threads, nFetch, nDownload, latest, applied>>

\* slot of FetchThread.error
show_error ==
    /\ queue # <<>>
    /\ Head(queue).sig = "error"
    /\ Head(queue).kind = "fetch"
    /\ error_label' = Lit("Error: ") \o Head(queue).text
    /\ status_label' = Lit("Failed to fetch data.")
    /\ fetch_threads' = Handled(fetch_threads, Head(queue).tid)
    /\ queue' = Tail(queue)
    /\ UNCHANGED <<streams_objects, streams_tree, selected, captions_listbox,
                   title_label, download_button, dialog, dialog_ok,
                   download_threads, nFetch, nDownload, latest, applied>>

\* the user selects the tree item at path p, or deselects (p = <<>>)
select_item(p) ==
    /\ dialog = <<>>
    /\ p # selected
    /\ p = <<>> \/ p \in TreePaths(streams_tree)
    /\ selected' = p
    /\ download_button' = update_download_button_state(p)
    /\ UNCHANGED <<streams_objects, streams_tree, captions_listbox,
                   title_label, status_label, error_label, dialog, dialog_ok,
                   fetch_threads, download_threads, queue, nFetch, nDownload,
                   latest, applied>>

(* ----------------------------- downloading ----------------------------- *)
\* what a method returns, or the text of the ValueError it raises
Raise(msg) == [err |-> msg, stream |-> <<>>, filename |-> <<>>]
ReturnStream(s) == [err |-> <<>>, stream |-> <<s>>, filename |-> <<>>]
ReturnFilename(f) == [err |-> <<>>, stream |-> <<>>, filename |-> f]

\* get_selected_stream with the except clause of the int() parse falling
\* back to the first stream instead of raising
get_selected_stream_first ==
    IF selected = <<>>
    THEN Raise(Lit("Please select a stream to download."))
    ELSE LET parts == Split(ItemText(streams_tree, selected), <<":", " ">>)
             bad == Len(parts) < 2 \/ ~IsIntLiteral(parts[2])
             found == IF bad THEN streams_objects
                      ELSE SelectSeq(streams_objects,
                               LAMBDA stream : stream.itag = StrToInt(parts[2]))
         IN  IF found = <<>>
             THEN Raise(Lit("Error: Could not find selected stream."))
             ELSE ReturnStream(found[1])

get_selected_stream ==
    IF selected = <<>>
    THEN Raise(Lit("Please select a stream to download."))
    ELSE LET itag_text == ItemText(streams_tree, selected)
             parts == Split(itag_text, <<":", " ">>)
         IN  IF Len(parts) < 2 \/ ~IsIntLiteral(parts[2])
             THEN Raise(Lit("Invalid stream selection."))
             ELSE LET itag == StrToInt(parts[2])
                      found == SelectSeq(streams_objects,
                                         LAMBDA stream : stream.itag = itag)
                  IN  IF found = <<>>
                      THEN Raise(Lit("Error: Could not find selected stream."))
                      ELSE ReturnStream(found[1])

\* the characters re.sub(r'[\\/*?:"<>|]', "", title) removes
Forbidden == {"\\", "/", "*", "?", ":", "\"", "<", ">", "|"}

max_length == 200

valid_subtypes ==
    { Mp4, Webm, <<"m", "4", "a">>, <<"m", "p", "3">>, <<"o", "g", "g">>,
      <<"f", "l", "v">>, <<"a", "v", "i">> }

Kbps == <<"k", "b", "p", "s">>

\* construct_filename cutting the name at max_length without putting the
\* extension back
construct_filename_cut(stream) ==
    LET stream_type == IF stream.type = "audio"
                       THEN <<"A", "u", "d", "i", "o">>
                       ELSE <<"V", "i", "d", "e", "o">>
        format_subtype == stream.subtype
        bitrate == IF stream.includes_audio_track /\ stream.abr # <<>>
                   THEN stream.abr ELSE NA
        resolution == IF stream.includes_video_track /\ stream.resolution # <<>>
                      THEN stream.resolution ELSE NA
        base_title == SelectSeq(stream.title, LAMBDA c : c \notin Forbidden)
        bitrate_str == IF EndsWith(ToLower(bitrate), Kbps)
                       THEN bitrate ELSE bitrate \o Kbps
        filename_parts ==
            <<base_title, stream_type, format_subtype>>
            \o (IF bitrate # NA THEN <<bitrate_str>> ELSE <<>>)
            \o (IF resolution # NA THEN <<resolution>> ELSE <<>>)
        custom_filename == Join(filename_parts)
        file_extension ==
            IF stream.type = "audio" /\ ~stream.includes_video_track
            THEN <<"m", "4", "a">>
            ELSE IF format_subtype \in valid_subtypes
                 THEN format_subtype ELSE Mp4
        with_ext == custom_filename \o <<".">> \o file_extension
    IN  [name |-> IF Len(with_ext) > max_length
                  THEN SubSeq(with_ext, 1, max_length)
                  ELSE with_ext,
         ext |-> file_extension]

construct_filename(stream) ==
    LET stream_type == IF stream.type = "audio"
                       THEN <<"A", "u", "d", "i", "o">>
                       ELSE <<"V", "i", "d", "e", "o">>
        format_subtype == stream.subtype
        bitrate == IF stream.includes_audio_track /\ stream.abr # <<>>
                   THEN stream.abr ELSE NA
        resolution == IF stream.includes_video_track /\ stream.resolution # <<>>
                      THEN stream.resolution ELSE NA
        base_title == SelectSeq(stream.title, LAMBDA c : c \notin Forbidden)
        bitrate_str == IF EndsWith(ToLower(bitrate), Kbps)
                       THEN bitrate ELSE bitrate \o Kbps
        filename_parts ==
            <<base_title, stream_type, format_subtype>>
            \o (IF bitrate # NA THEN <<bitrate_str>> ELSE <<>>)
            \o (IF resolution # NA THEN <<resolution>> ELSE <<>>)
        custom_filename == Join(filename_parts)
        file_extension ==
            IF stream.type = "audio" /\ ~stream.includes_video_track
            THEN <<"m", "4", "a">>
            ELSE IF format_subtype \in valid_subtypes
                 THEN format_subtype ELSE Mp4
        extension == <<".">> \o file_extension
        with_ext == custom_filename \o extension
    IN  [name |-> IF Len(with_ext) > max_length
                  THEN SubSeq(with_ext, 1, max_length - Len(extension))
                       \o extension
                  ELSE with_ext,
         ext |-> file_extension]

\* get_confirmed_filename without the test of ok
get_confirmed_filename_ignores_ok(text, ok, proposed_filename, file_extension) ==
    LET confirmed ==
            IF text # <<>>
               /\ ~EndsWith(ToLower(text), <<".">> \o file_extension)
            THEN text \o <<".">> \o file_extension
            ELSE text
    IN  ReturnFilename(IF confirmed # <<>> THEN confirmed
                       ELSE proposed_filename)

\* get_confirmed_filename comparing the extension without lower()
get_confirmed_filename_case_sensitive(text, ok, proposed_filename, file_extension) ==
    IF ~ok THEN Raise(Lit("Download canceled by the user."))
    ELSE LET confirmed ==
                 IF text # <<>>
                    /\ ~EndsWith(text, <<".">> \o file_extension)
                 THEN text \o <<".">> \o file_extension
                 ELSE text
         IN  ReturnFilename(IF confirmed # <<>> THEN confirmed
                            ELSE proposed_filename)

\* the dialog returned (text, ok)
get_confirmed_filename(text, ok, proposed_filename, file_extension) ==
    IF ~ok THEN Raise(Lit("Download canceled by the user."))
    ELSE LET confirmed ==
                 IF text # <<>>
                    /\ ~EndsWith(ToLower(text), <<".">> \o file_extension)
                 THEN text \o <<".">> \o file_extension
                 ELSE text
         IN  ReturnFilename(IF confirmed # <<>> THEN confirmed
                            ELSE proposed_filename)

\* the texts the user leaves in the filename dialog
DialogTexts(proposed_filename) == { proposed_filename, <<>>, <<"x">> }

NewDownloadThread(id, stream, filename) ==
    [id |-> id, stream |-> stream, filename |-> filename, pc |-> "run",
     lib |-> "", emitted |-> <<>>]

start_download(stream, filename) ==
    /\ status_label' = Lit("Starting download as: ") \o Chr(filename)
    /\ error_label' = <<>>
    /\ download_button' = FALSE
    /\ nDownload' = nDownload + 1
    /\ download_threads' = download_threads
           \cup {NewDownloadThread(nDownload + 1, stream, filename)}

\* the except ValueError clause of download_selected_stream
download_setup_error(ve) ==
    /\ error_label' = Lit("Error: ") \o ve
    /\ status_label' = Lit("Download failed.")
    /\ UNCHANGED <<download_button, nDownload, download_threads>>

\* Download Selected Stream clicked: download_selected_stream up to the
\* point where QInputDialog.getText opens the dialog and waits
download_selected_stream ==
    /\ dialog = <<>>
    /\ download_button
    /\ LET r == get_selected_stream
       IN  IF r.err # <<>>
           THEN /\ download_setup_error(r.err)
                /\ UNCHANGED dialog
           ELSE LET f == construct_filename(r.stream[1])
                IN  /\ nFetch + nDownload < MaxThreads
                    /\ dialog' = <<[stream |-> r.stream[1],
                                    proposed |-> f.name, ext |-> f.ext]>>
                    /\ UNCHANGED <<status_label, error_label, download_button,
                                   nDownload, download_threads>>
    /\ UNCHANGED <<streams_objects, streams_tree, selected, captions_listbox,
                   title_label, dialog_ok, fetch_threads, queue, nFetch,
                   latest, applied>>

\* the user closes the filename dialog with (text, ok): the rest of
\* download_selected_stream
download_selected_stream_confirmed(text, ok) ==
    /\ dialog # <<>>
    /\ dialog' = <<>>
    /\ dialog_ok' = ok
    /\ LET c == get_confirmed_filename(text, ok, dialog[1].proposed,
                                       dialog[1].ext)
       IN  IF c.err # <<>>
           THEN download_setup_error(c.err)
           ELSE start_download(dialog[1].stream, c.filename)
    /\ UNCHANGED <<streams_objects, streams_tree, selected, captions_listbox,
                   title_label, fetch_threads, queue, nFetch, latest, applied>>

\* str(e) of the exceptions stream.download() raises
DownloadErrors == { Lit("HTTP Error 403: Forbidden") }

\* the path stream.download() returns for a filename
DownloadedFile(filename) == Lit("./") \o Chr(filename)

\* DownloadThread.run without the else branch of `if downloaded_file`
DownloadThread_signals_no_else(lib) ==
    IF lib = "path" THEN <<"completed">>
    ELSE IF lib = "raised" THEN <<"error">>
    ELSE <<>>

\* the signals DownloadThread.run emits, in order, when the library call
\* ended as lib: "path" (a path returned), "falsy" or "raised"
DownloadThread_signals(lib) ==
    IF lib = "path" THEN <<"completed">> ELSE <<"error">>

\* the argument of the signal run emits
DownloadThread_text(d, lib, e) ==
    IF lib = "path" THEN DownloadedFile(d.filename)
    ELSE IF lib = "falsy" THEN Lit("Download was skipped or failed.")
    ELSE e

DownloadThread_run(d) ==
    /\ d \in download_threads
    /\ d.pc = "run"
    /\ \E lib \in DownloadReturns \cup {"raised"}, e \in DownloadErrors :
          LET sigs == DownloadThread_signals(lib)
          IN  /\ download_threads' = (download_threads \ {d}) \cup
                     {[d EXCEPT !.pc = "done", !.lib = lib, !.emitted = sigs]}
              /\ queue' = queue \o
                     [i \in DOMAIN sigs |->
                         Event(sigs[i], "download", d.id, <<>>, <<>>,
                               DownloadThread_text(d, lib, e), "", "")]
    /\ UNCHANGED <<streams_objects, streams_tree, selected, captions_listbox,
                   title_label, status_label, error_label, download_button,
                   dialog, dialog_ok, fetch_threads, nFetch, nDownload,
                   latest, applied>>

\* slot of DownloadThread.completed
download_completed ==
    /\ queue # <<>>
    /\ Head(queue).sig = "completed"
    /\ status_label' = Lit("Download completed: ") \o Head(queue).text
    /\ download_button' = TRUE
    /\ download_threads' = Handled(download_threads, Head(queue).tid)
    /\ queue' = Tail(queue)
    /\ UNCHANGED <<streams_objects, streams_tree, selected, captions_listbox,
                   title_label, error_label, dialog, dialog_ok, fetch_threads,
                   nFetch, nDownload, latest, applied>>

\* download_error without download_button.setEnabled(True)
download_error_keeps_button ==
    /\ queue # <<>>
    /\ Head(queue).sig = "error"
    /\ Head(queue).kind = "download"
    /\ error_label' = Lit("Error: ") \o Head(queue).text
    /\ status_label' = Lit("Download failed.")
    /\ download_threads' = Handled(download_threads, Head(queue).tid)
    /\ queue' = Tail(queue)
    /\ UNCHANGED <<streams_objects, streams_tree, selected, captions_listbox,
                   title_label, download_button, dialog, dialog_ok,
                   fetch_threads, nFetch, nDownload, latest, applied>>

\* slot of DownloadThread.error
download_error ==
    /\ queue # <<>>
    /\ Head(queue).sig = "error"
    /\ Head(queue).kind = "download"
    /\ error_label' = Lit("Error: ") \o Head(queue).text
    /\ status_label' = Lit("Download failed.")
    /\ download_button' = TRUE
    /\ download_threads' = Handled(download_threads, Head(queue).tid)
    /\ queue' = Tail(queue)
    /\ UNCHANGED <<streams_objects, streams_tree, selected, captions_listbox,
                   title_label, dialog, dialog_ok, fetch_threads, nFetch,
                   nDownload, latest, applied>>

Next ==
    \/ \E text \in UrlTexts : fetch_video_info(text)
    \/ \E t \in fetch_threads : FetchThread_run(t)
    \/ \E t \in fetch_threads : FetchThread_emit_finished(t)
    \/ show_client_switch
    \/ update_info
    \/ show_error
    \/ \E p \in {<<>>} \cup TreePaths(streams_tree) : select_item(p)
    \/ download_selected_stream
    \/ \E text \in DialogTexts(IF dialog # <<>> THEN dialog[1].proposed ELSE <<>>),
          ok \in BOOLEAN : download_selected_stream_confirmed(text, ok)
    \/ \E d \in download_threads : DownloadThread_run(d)
    \/ download_completed
    \/ download_error

Spec == Init /\ [][Next]_vars

\* The scheduling the code relies on: a started thread runs to its end (the
\* library call returns or raises) and the event loop of the GUI thread runs
\* every posted slot call.
Fairness ==
    /\ \A i \in 1..MaxThreads :
          /\ WF_vars(\E t \in fetch_threads : t.id = i /\ FetchThread_run(t))
          /\ WF_vars(\E t \in fetch_threads :
                        t.id = i /\ FetchThread_emit_finished(t))
          /\ WF_vars(\E d \in download_threads :
                        d.id = i /\ DownloadThread_run(d))
    /\ WF_vars(show_client_switch)
    /\ WF_vars(update_info)
    /\ WF_vars(show_error)
    /\ WF_vars(download_completed)
    /\ WF_vars(download_error)

FairSpec == Spec /\ Fairness

(* ---------------- the filename routines on their own ------------------- *)
\* s repeated until n characters are there
Repeat(s, n) == [i \in 1..n |-> s[((i - 1) % Len(s)) + 1]]

\* stream.title: empty, short, of forbidden characters only, such that the
\* name of a progressive mp4 stream (the title and the 26 characters of
\* "_Video_mp4_96kbps_360p.mp4") has exactly max_length and max_length + 1
\* characters, and long with a forbidden character at every other place
TitleInputs ==
    { <<>>, <<"A", ":", "b">>, <<"?", "|">>,
      Repeat(<<"a">>, max_length - 26), Repeat(<<"a">>, max_length - 25),
      Repeat(<<"a", "/">>, 2 * MaxTitle) }

\* stream.subtype: two of valid_subtypes and one that is not among them
SubtypeInputs == { Mp4, Webm, <<"3", "g", "p", "p">> }

\* stream.abr: None, with and without the kbps suffix
AbrInputs == { <<>>, <<"1", "2", "8", "k", "b", "p", "s">>, <<"9", "6">> }

\* stream.resolution: None or a height
ResolutionInputs == { <<>>, <<"3", "6", "0", "p">> }

\* the streams YouTube(url).streams can deliver, as far as construct_filename
\* reads them
StreamInputs ==
    { [itag |-> 18, type |-> ty, subtype |-> st, title |-> ti, abr |-> ab,
       resolution |-> re, includes_audio_track |-> au,
       includes_video_track |-> vi] :
        ty \in {"video", "audio"}, st \in SubtypeInputs, ti \in TitleInputs,
        ab \in AbrInputs, re \in ResolutionInputs, au \in BOOLEAN,
        vi \in BOOLEAN }

\* the texts the user leaves in the filename dialog: the proposal, nothing,
\* a blank, a bare name, and names and bare suffixes that end with an
\* extension in lower or upper case
FilenameDialogTexts(proposed_filename) ==
    { proposed_filename, <<>>, <<" ">>, <<"x">>,
      <<"x", ".", "m", "p", "4">>, <<"x", ".", "M", "P", "4">>,
      <<"x", ".", "M", "4", "a">>, <<".", "w", "e", "b", "m">>,
      <<"m", "p", "4">> }

\* The window after update_info has shown a fetch result of one stream and
\* the user has selected its row: the fetch was the last thread but one the
\* run may start.
FilenameInit ==
    \E stream \in StreamInputs :
        /\ streams_objects = Objects(<<stream>>, MaxThreads - 1)
        /\ streams_tree = BuildTree(<<stream>>)
        /\ selected = (IF stream.type = "video" THEN <<1, 1>> ELSE <<2, 1>>)
        /\ captions_listbox = <<>>
        /\ title_label = Chr(stream.title)
        /\ status_label = Lit("Data fetched successfully.")
        /\ error_label = <<>>
        /\ download_button = update_download_button_state(selected)
        /\ dialog = <<>>
        /\ dialog_ok = FALSE
        /\ fetch_threads = {}
        /\ download_threads = {}
        /\ queue = <<>>
        /\ nFetch = MaxThreads - 1
        /\ nDownload = 0
        /\ latest = "ok"
        /\ applied = [id |-> MaxThreads - 1,
                      streams |-> Objects(<<stream>>, MaxThreads - 1),
                      captions |-> <<>>]

FilenameNext ==
    \/ download_selected_stream
    \/ \E text \in FilenameDialogTexts(IF dialog # <<>> THEN dialog[1].proposed
                                        ELSE <<>>),
          ok \in BOOLEAN : download_selected_stream_confirmed(text, ok)
    \/ \E d \in download_threads : DownloadThread_run(d)
    \/ download_completed
    \/ download_error

FilenameSpec == FilenameInit /\ [][FilenameNext]_vars

(* ------------------------------ properties ----------------------------- *)
TerminalSignals == {"finished", "completed", "error"}

\* the terminal signals among the signals a run has emitted
Terminal(emitted) == SelectSeq(emitted, LAMBDA sig : sig \in TerminalSignals)

\* the posted terminal signals of a thread
Posted(kind, tid) ==
    SelectSeq(queue, LAMBDA ev : /\ ev.kind = kind
                                 /\ ev.tid = tid
                                 /\ ev.sig \in TerminalSignals)

InProgress(kind, tid) ==
    IF kind = "fetch" THEN \E t \in fetch_threads : t.id = tid
    ELSE \E d \in download_threads : d.id = tid

\* C1: a run of FetchThread or DownloadThread that has not returned has
\* emitted no terminal signal, a run that has returned has emitted exactly
\* one (finished or error; completed or error), whatever the library call
\* did, and the event queue holds exactly the terminal signals emitted by
\* the threads whose report is not handled yet.
C1_ReportsExactlyOnce ==
    /\ \A t \in fetch_threads :
          /\ Len(Terminal(t.emitted)) = (IF t.pc = "done" THEN 1 ELSE 0)
          /\ Len(Posted("fetch", t.id)) = Len(Terminal(t.emitted))
          /\ \A i \in DOMAIN t.emitted : t.emitted[i] # "completed"
    /\ \A d \in download_threads :
          /\ Len(Terminal(d.emitted)) = (IF d.pc = "done" THEN 1 ELSE 0)
          /\ Len(Posted("download", d.id)) = Len(Terminal(d.emitted))
          /\ \A i \in DOMAIN d.emitted : d.emitted[i] # "finished"
    /\ \A i \in DOMAIN queue :
          queue[i].sig \in TerminalSignals
              => InProgress(queue[i].kind, queue[i].tid)

\* a DownloadThread whose library call returned a falsy value has reported,
\* next to a FetchThread whose library call raised
C1_Witness ==
    /\ \E d \in download_threads :
          d.pc = "done" /\ d.lib = "falsy" /\ d.emitted = <<"error">>
    /\ \E t \in fetch_threads : t.pc = "done" /\ t.emitted = <<"error">>

\* C2: no FetchThread is in progress while a DownloadThread is in progress.
C2_NoOverlap == ~(fetch_threads # {} /\ download_threads # {})

\* a DownloadThread is started by this step
DownloadStarted == nDownload' = nDownload + 1

\* the DownloadThread this step starts
StartedThread == CHOOSE d \in download_threads' : d.id = nDownload'

\* C3: whenever a DownloadThread is started, its stream is an element of the
\* stream list of the fetch result update_info applied last, which is the
\* window's streams_objects, a tree row is selected and shows the itag of
\* that stream; so some non-empty fetch result has been applied before.
C3_SelectionReferencesFetchedStream ==
    [][DownloadStarted =>
          /\ applied.id # 0
          /\ applied.streams # <<>>
          /\ streams_objects = applied.streams
          /\ \E i \in DOMAIN applied.streams :
                applied.streams[i] = StartedThread.stream
          /\ selected # <<>>
          /\ ItemText(streams_tree, selected) = RowText(StartedThread.stream)
      ]_vars

\* this step runs the slot of a thread's error signal
ErrorHandled(kind) ==
    /\ queue # <<>>
    /\ Head(queue).sig = "error"
    /\ Head(queue).kind = kind
    /\ queue' = Tail(queue)

\* C4: when the library call of FetchThread raises, the thread emits error
\* with the exception text and nothing else, and handling it sets the error
\* label to "Error: <text>" and the status to "Failed to fetch data." and
\* leaves the tree, its selection, the caption list, the title,
\* streams_objects and the download button as they are.
C4_FetchErrorSurfaced ==
    /\ [](\A i \in DOMAIN queue :
             (queue[i].sig = "error" /\ queue[i].kind = "fetch")
                 => /\ queue[i].text \in LibErrors
                    /\ \E t \in fetch_threads :
                          t.id = queue[i].tid /\ t.emitted = <<"error">>)
    /\ [][ErrorHandled("fetch") =>
             /\ error_label' = Lit("Error: ") \o Head(queue).text
             /\ status_label' = Lit("Failed to fetch data.")
             /\ UNCHANGED <<streams_tree, selected, captions_listbox,
                            title_label, streams_objects, download_button>>
         ]_vars

\* a fetch error has been shown while the tree holds the rows of another
\* fetch, one of them selected
C4_Witness ==
    /\ \E e \in LibErrors : error_label = Lit("Error: ") \o e
    /\ status_label = Lit("Failed to fetch data.")
    /\ streams_tree # <<>>
    /\ Len(selected) = 2
    /\ download_button
    /\ fetch_threads = {}

\* C5: a DownloadThread whose library call raised or returned a falsy value
\* emits error (with the exception text, or "Download was skipped or
\* failed.") and not completed; handling it sets the status to "Download
\* failed.", the error label to "Error: <text>" and enables the download
\* button; and every started download is eventually handled, with the
\* download button enabled at that moment.
C5_FailedDownloadReported ==
    /\ [](\A d \in download_threads :
             (d.pc = "done" /\ d.lib # "path")
                 => /\ d.emitted = <<"error">>
                    /\ \E i \in DOMAIN queue :
                          /\ queue[i].kind = "download"
                          /\ queue[i].tid = d.id
                          /\ queue[i].sig = "error"
                          /\ queue[i].text \in
                                 (IF d.lib = "falsy"
                                  THEN {Lit("Download was skipped or failed.")}
                                  ELSE DownloadErrors)
                    /\ \A i \in DOMAIN queue :
                          (queue[i].kind = "download" /\ queue[i].tid = d.id)
                              => queue[i].sig # "completed")
    /\ [][ErrorHandled("download") =>
             /\ status_label' = Lit("Download failed.")
             /\ error_label' = Lit("Error: ") \o Head(queue).text
             /\ download_button'
         ]_vars
    /\ \A i \in 1..MaxThreads :
          InProgress("download", i)
              ~> (~InProgress("download", i) /\ download_button)

\* the error of a skipped download has been handled
C5_Witness ==
    /\ error_label = Lit("Error: ") \o Lit("Download was skipped or failed.")
    /\ status_label = Lit("Download failed.")
    /\ download_button
    /\ nDownload = 1
    /\ download_threads = {}

\* this step closes the filename dialog
DialogClosed == dialog # <<>> /\ dialog' = <<>>

\* C6: a DownloadThread is started only by the step in which the user
\* accepts the filename dialog; when the user cancels it, no DownloadThread
\* is created, the error label becomes "Error: Download canceled by the
\* user.", the status "Download failed.", and the download button and
\* streams_objects stay as they are.
C6_ConfirmedBeforeDownload ==
    /\ [][DownloadStarted => (DialogClosed /\ dialog_ok')]_vars
    /\ [][(DialogClosed /\ ~dialog_ok') =>
             /\ nDownload' = nDownload
             /\ download_threads' = download_threads
             /\ error_label' = Lit("Error: ")
                                  \o Lit("Download canceled by the user.")
             /\ status_label' = Lit("Download failed.")
             /\ UNCHANGED <<download_button, streams_objects>>
         ]_vars

\* the dialog was cancelled while the download button was enabled
C6_Witness ==
    /\ dialog = <<>>
    /\ ~dialog_ok
    /\ error_label = Lit("Error: ") \o Lit("Download canceled by the user.")
    /\ status_label = Lit("Download failed.")
    /\ download_button
    /\ nDownload = 0

\* the selected row names no stream of streams_objects; the reason
\* get_selected_stream is to give
NoSelection == selected = <<>>
HeaderSelected == Len(selected) = 1
UnknownItag ==
    /\ Len(selected) = 2
    /\ \A i \in DOMAIN streams_objects :
          RowText(streams_objects[i]) # ItemText(streams_tree, selected)
BadSelection == NoSelection \/ HeaderSelected \/ UnknownItag
RejectionReason ==
    IF NoSelection THEN Lit("Please select a stream to download.")
    ELSE IF HeaderSelected THEN Lit("Invalid stream selection.")
    ELSE Lit("Error: Could not find selected stream.")
RejectionLabels ==
    { Lit("Error: ") \o Lit("Please select a stream to download."),
      Lit("Error: ") \o Lit("Invalid stream selection."),
      Lit("Error: ") \o Lit("Error: Could not find selected stream.") }

\* this step is a Download click that was rejected: the only handler that
\* writes a rejection into the error label
RejectedClick ==
    /\ error_label' \in RejectionLabels
    /\ \/ error_label' # error_label
       \/ status_label' = Lit("Download failed.") /\ status_label' # status_label

\* C7: while no row, a group header or a row whose itag matches no element
\* of streams_objects is selected, no step starts a DownloadThread or opens
\* the filename dialog; a rejected Download click happens only then, sets
\* the error label to "Error: <reason>" and the status to "Download failed."
\* and changes nothing else, the download button included.
C7_BadSelectionRejected ==
    /\ [][(dialog = <<>> /\ BadSelection) =>
             (dialog' = <<>> /\ nDownload' = nDownload)]_vars
    /\ [][RejectedClick =>
             /\ dialog = <<>>
             /\ BadSelection
             /\ download_button
             /\ error_label' = Lit("Error: ") \o RejectionReason
             /\ status_label' = Lit("Download failed.")
             /\ UNCHANGED <<streams_objects, streams_tree, selected,
                            captions_listbox, title_label, download_button,
                            dialog, dialog_ok, fetch_threads,
                            download_threads, queue, nFetch, nDownload>>
         ]_vars

\* Download was clicked with a group header selected
C7_Witness ==
    /\ HeaderSelected
    /\ error_label = Lit("Error: ") \o Lit("Invalid stream selection.")
    /\ status_label = Lit("Download failed.")
    /\ download_button
    /\ dialog = <<>>
    /\ streams_objects # <<>>

\* C8: while a DownloadThread is in progress the download button is
\* disabled and no second DownloadThread is in progress.
C8_SingleDownload ==
    download_threads # {} =>
        (~download_button /\ Cardinality(download_threads) = 1)

\* C9: once every started fetch has reported and its report is handled, the
\* tree, the title and streams_objects are those of the fetch started last,
\* and they are empty when that fetch failed.
C9_LatestFetchShown ==
    (nFetch > 0 /\ fetch_threads = {}) =>
        IF latest = "ok"
        THEN /\ applied.id = nFetch
             /\ streams_objects = applied.streams
             /\ streams_tree = BuildTree(applied.streams)
             /\ title_label = (IF applied.streams = <<>> THEN <<>>
                               ELSE Chr(applied.streams[1].title))
        ELSE /\ streams_tree = <<>>
             /\ title_label = <<>>
             /\ streams_objects = <<>>

\* C10: whenever the tree shows a fetch result, the caption list holds
\* exactly the captions of that result.
C10_CaptionsOfShownFetch ==
    (applied.id # 0 /\ streams_tree # <<>>) =>
        captions_listbox = applied.captions

\* C11: whenever the download button is enabled a row of the streams tree is
\* selected; in particular the button is disabled while the tree is empty.
C11_EnabledImpliesSelected ==
    download_button => (selected # <<>> /\ streams_tree # <<>>)

\* this step is a Fetch Info click with an empty or blank URL field: the
\* only handler that writes this text into the error label
EmptyUrlClick ==
    /\ error_label' = Lit("Please enter a YouTube video URL.")
    /\ error_label' # error_label

\* a FetchThread is started by this step
FetchStarted == nFetch' = nFetch + 1

\* C12: a Fetch Info click with an empty or blank URL starts no FetchThread
\* and changes the error label only; a step that starts a FetchThread leaves
\* the tree, its selection, the caption list, the title and the error label
\* empty and the download button disabled, with the new thread not yet run
\* and the status "Fetching data...".
C12_FetchClickFrame ==
    /\ [][EmptyUrlClick =>
             UNCHANGED <<status_label, title_label, streams_tree, selected,
                         captions_listbox, streams_objects, download_button,
                         fetch_threads, download_threads, nFetch, nDownload,
                         queue, dialog>>
         ]_vars
    /\ [][FetchStarted =>
             /\ streams_tree' = <<>>
             /\ selected' = <<>>
             /\ captions_listbox' = <<>>
             /\ title_label' = <<>>
             /\ error_label' = <<>>
             /\ ~download_button'
             /\ status_label' = Lit("Fetching data...")
             /\ fetch_threads' = fetch_threads \cup {NewFetchThread(nFetch')}
             /\ UNCHANGED <<streams_objects, queue>>
         ]_vars

\* Fetch Info was clicked with a blank URL while the view showed the result
\* of the second fetch, with a row selected, captions listed and the button
\* enabled
C12_Witness ==
    /\ error_label = Lit("Please enter a YouTube video URL.")
    /\ status_label = Lit("Data fetched successfully.")
    /\ Len(selected) = 2
    /\ captions_listbox # <<>>
    /\ title_label # <<>>
    /\ download_button
    /\ applied.id = 2
    /\ fetch_threads = {}

\* the extension the filename of a stream is to carry
ExpectedExtension(stream) ==
    IF stream.type = "audio" /\ ~stream.includes_video_track
    THEN <<"m", "4", "a">>
    ELSE IF stream.subtype \in
               { <<"m", "p", "4">>, <<"w", "e", "b", "m">>, <<"m", "4", "a">>,
                 <<"m", "p", "3">>, <<"o", "g", "g">>, <<"f", "l", "v">>,
                 <<"a", "v", "i">> }
         THEN stream.subtype
         ELSE <<"m", "p", "4">>

\* the characters a filename must not take over from the title
NotInFilenames == {"\\", "/", "*", "?", ":", "\"", "<", ">", "|"}

\* a title without those characters
RECURSIVE Sanitized(_)
Sanitized(title) ==
    IF title = <<>> THEN <<>>
    ELSE IF Len(title) = 1
         THEN (IF title[1] \in NotInFilenames THEN <<>> ELSE title)
         ELSE Sanitized(SubSeq(title, 1, Len(title) \div 2))
              \o Sanitized(SubSeq(title, (Len(title) \div 2) + 1, Len(title)))

\* this step opens the filename dialog: the Download click got past
\* get_selected_stream and construct_filename
DialogOpened == dialog = <<>> /\ dialog' # <<>>

\* C13: the (name, ext) construct_filename returns for a stream, which the
\* filename dialog proposes: name has at most 200 characters and ends with
\* "." \o ext; ext is m4a for an audio stream without a video track, else
\* the subtype when it is one of mp4, webm, m4a, mp3, ogg, flv, avi, else
\* mp4; name starts with the title without its forbidden characters (as far
\* as the name before the extension reaches) and has none of them there;
\* and computing it changes nothing of the window.
C13_ConstructedFilename ==
    /\ [](dialog # <<>> =>
             LET stream == dialog[1].stream
                 name == dialog[1].proposed
                 ext == dialog[1].ext
                 kept == Sanitized(stream.title)
                 m == IF Len(kept) < Len(name) - Len(ext) - 1
                      THEN Len(kept) ELSE Len(name) - Len(ext) - 1
             IN  /\ Len(name) <= 200
                 /\ EndsWith(name, <<".">> \o ext)
                 /\ ext = ExpectedExtension(stream)
                 /\ m >= 0
                 /\ SubSeq(name, 1, m) = SubSeq(kept, 1, m)
                 /\ \A i \in 1..m : name[i] \notin NotInFilenames)
    /\ [][DialogOpened =>
             UNCHANGED <<streams_objects, streams_tree, selected,
                         captions_listbox, title_label, status_label,
                         error_label, download_button, dialog_ok,
                         fetch_threads, download_threads, queue, nFetch,
                         nDownload, latest, applied>>
         ]_vars

\* the dialog proposes a name that was cut to 200 characters, for a stream
\* whose title has forbidden characters and whose subtype is not a known
\* extension
C13_Witness ==
    /\ dialog # <<>>
    /\ Len(dialog[1].proposed) = 200
    /\ Len(Sanitized(dialog[1].stream.title)) > 200
    /\ Len(Sanitized(dialog[1].stream.title)) < Len(dialog[1].stream.title)
    /\ dialog[1].stream.subtype = <<"3", "g", "p", "p">>
    /\ dialog[1].stream.type = "video"
    /\ dialog[1].ext = <<"m", "p", "4">>

\* s ends with suffix, letter case aside
EndsWithIgnoringCase(s, suffix) == EndsWith(ToLower(s), ToLower(suffix))

\* the filename a download is to get when the user accepts the dialog with
\* `text` in it
ExpectedFilename(text, proposed, ext) ==
    IF text = <<>> THEN proposed
    ELSE IF EndsWithIgnoringCase(text, <<".">> \o ext) THEN text
    ELSE text \o <<".">> \o ext

\* C14: for every text the user may accept the filename dialog with,
\* get_confirmed_filename returns a name that ends, letter case aside, with
\* "." \o ext, ext being the extension construct_filename returned for the
\* stream: the text itself when it ends so already, the text with "." \o ext
\* appended when it is any other non-empty text, the proposed filename when
\* it is empty; and the DownloadThread a step starts gets the stream of the
\* dialog and such a name, which the status label shows.
C14_FilenameCarriesExtension ==
    /\ [](dialog # <<>> =>
             /\ dialog[1].ext = ExpectedExtension(dialog[1].stream)
             /\ \A text \in FilenameDialogTexts(dialog[1].proposed) :
                   LET c == get_confirmed_filename(text, TRUE,
                                dialog[1].proposed, dialog[1].ext)
                   IN  /\ c.err = <<>>
                       /\ c.filename = ExpectedFilename(text,
                                dialog[1].proposed, dialog[1].ext)
                       /\ EndsWithIgnoringCase(c.filename,
                                <<".">> \o dialog[1].ext))
    /\ [][DownloadStarted =>
             /\ dialog # <<>>
             /\ StartedThread.stream = dialog[1].stream
             /\ EndsWithIgnoringCase(StartedThread.filename,
                                     <<".">> \o dialog[1].ext)
             /\ \E text \in FilenameDialogTexts(dialog[1].proposed) :
                   StartedThread.filename =
                       ExpectedFilename(text, dialog[1].proposed, dialog[1].ext)
             /\ status_label' = Lit("Starting download as: ")
                                    \o Chr(StartedThread.filename)
         ]_vars

\* a download of an mp4 stream was started under the name x.MP4, which the
\* user typed: the name was handed over as typed
C14_Witness ==
    \E d \in download_threads :
        /\ d.filename = <<"x", ".", "M", "P", "4">>
        /\ ExpectedExtension(d.stream) = <<"m", "p", "4">>
        /\ status_label = Lit("Starting download as: ") \o Chr(d.filename)

\* the places of the posted signals sig of FetchThread tid in the queue
PlacesOf(sig, tid) ==
    {i \in DOMAIN queue :
        queue[i].kind = "fetch" /\ queue[i].tid = tid /\ queue[i].sig = sig}

\* this step runs the slot of a FetchThread's finished signal
FinishedHandled ==
    /\ queue # <<>>
    /\ Head(queue).sig = "finished"
    /\ queue' = Tail(queue)

\* C15: a run of FetchThread emits client_switched at most once, as its
\* first signal, only when yt.client differs from the client before the
\* streams were enumerated, and with those two clients as arguments; a run
\* that emitted it goes on to emit finished and never error; in the event
\* queue the client_switched of a run comes before its finished; and the
\* step that handles the finished of a run leaves the status label at
\* "Data fetched successfully." with no client_switched of that run left to
\* be handled.
C15_ClientSwitchBeforeFinished ==
    /\ [](\A t \in fetch_threads :
             /\ t.emitted \in { <<>>, <<"error">>, <<"finished">>,
                                 <<"client_switched">>,
                                 <<"client_switched", "finished">> }
             /\ (t.emitted # <<>> /\ t.emitted[1] = "client_switched")
                    => t.new # OriginalClient
             /\ (t.pc = "done") =>
                    t.emitted[Len(t.emitted)] \in {"finished", "error"}
             /\ Cardinality(PlacesOf("client_switched", t.id)) <= 1
             /\ \A i \in PlacesOf("client_switched", t.id) :
                    /\ queue[i].orig = OriginalClient
                    /\ queue[i].new = t.new
                    /\ queue[i].new # queue[i].orig
                    /\ PlacesOf("error", t.id) = {}
                    /\ \A j \in PlacesOf("finished", t.id) : i < j)
    /\ [][FinishedHandled =>
             /\ status_label' = Lit("Data fetched successfully.")
             /\ PlacesOf("client_switched", Head(queue).tid) = {}
         ]_vars

\* the client switch of the only fetch has been handled and shown, and the
\* finished signal of that run is posted and waits to be handled
C15_Witness ==
    /\ nFetch = 1
    /\ \E t \in fetch_threads :
          /\ t.emitted = <<"client_switched", "finished">>
          /\ t.new = "WEB"
    /\ status_label = Lit("Client switched from ") \o Lit("ANDROID_VR")
                       \o Lit(" to ") \o Lit("WEB")
                       \o Lit(" to fetch video data.")
    /\ Len(queue) = 1
    /\ queue[1].sig = "finished"

====
